---- MODULE Spec2Model ----
(***************************************************************************)
(* A model of the football-analysis pipeline in src/utils: the ball        *)
(* tracker (trackers.py), the goalkeeper-team resolver, the training-crop  *)
(* sampler and the frame loop of process_video (processor.py).             *)
(*                                                                         *)
(* Geometry.  A box is <<x1, y1, x2, y2>> with integer pixel corners.  An  *)
(* anchor point is kept as TWICE its coordinates, so that the halves a     *)
(* centre produces stay integers: every point of the model is in           *)
(* half-pixels.  np.linalg.norm is compared through its square, which      *)
(* orders distances exactly as the norm does.                              *)
(***************************************************************************)
EXTENDS Integers, Sequences, FiniteSets, TLC

VARIABLES
    ball_tracker,   \* BallTracker: [buffer, last_position, maxlen]
    bt_call,        \* the last BallTracker call: [op, detections, pre, ret]
    run,            \* [ok, p, n]: the n calls since the reset each carried one detection at p
    seen,           \* the position of the most recent call that carried a ball
    candidates,     \* the ball detections the detector of this run can produce
    resolve_call,   \* resolve_goalkeepers_team_id: [players, goalkeepers, done, ret]
    sampler,        \* create_team_classifier: its arguments, its loop and its crops
    pc,             \* process_video: "idle", "loop", "returned" or "raised"
    args,           \* [start_frame, max_frames, progress_callback]
    video,          \* [total_frames, readable]: the frame count the file states
                    \* and the frames its decoder yields from start_frame on
    player_detector,\* [menus, may_raise]: what the general detector can return
    ball_yolo,      \* [present, outcomes]: the ball model and what it can return
    team_classifier,\* [kind, labelled, may_raise]: the classifier behind predict
    frame_idx,      \* frames taken from the generator so far
    stats,          \* the statistics dictionary
    progress_calls, \* the calls of progress_callback: [frame_idx, num, den]
    tracker_calls,  \* calls of tracker.update_with_detections so far
    empty_frames,   \* frames so far for which the detector returned no detection
    frame           \* what the last iteration of the loop did

bt_vars == <<bt_call, run, seen, candidates>>
pv_vars == <<pc, args, video, player_detector, ball_yolo, team_classifier, frame_idx,
             stats, progress_calls, tracker_calls, empty_frames, frame>>
vars == <<ball_tracker, bt_vars, resolve_call, sampler, pv_vars>>

-----------------------------------------------------------------------------
(* Class ids, detectors.py *)

BALL_ID == 0
GOALKEEPER_ID == 1
PLAYER_ID == 2
REFEREE_ID == 3

\* the trail capacity process_video gives its BallTracker
BUFFER_SIZE == 30

\* Python's None; a position is a pair, so the two never coincide
None == <<>>

-----------------------------------------------------------------------------
(* Bounds of the model *)

\* the largest deque capacity of the small tracker configurations
MaxBuf == 2
\* the most candidates one update call carries
MaxCands == 2
\* the most labelled players, and the most goalkeepers, one resolution is given
MaxPlayers == 3
MaxKeepers == 2
\* the frames of the videos whose frames carry any detections
MaxFrames == 2
\* the most frames a video of the progress runs states or holds
MaxTotal == 22
\* the largest stride, the largest max_crops and the longest video of the
\* classifier's training runs
MaxStride == 2
MaxCrops == 3
MaxSampleFrames == 4
\* how far past the capacity a run of identical detections may go
MaxExtra == 2

-----------------------------------------------------------------------------
(* Anchors and distances *)

Min(a, b) == IF a <= b THEN a ELSE b

\* sv.Position.CENTER: ((x1 + x2) / 2, (y1 + y2) / 2), in half-pixels
Center(xyxy) == <<xyxy[1] + xyxy[3], xyxy[2] + xyxy[4]>>

\* Detections.get_anchors_coordinates(sv.Position.CENTER): one row per detection
CenterAnchors(detections) ==
    [i \in 1..Len(detections) |-> Center(detections[i].xyxy)]

\* the square of np.linalg.norm(p - q)
Dist2(p, q) == (p[1] - q[1]) * (p[1] - q[1]) + (p[2] - q[2]) * (p[2] - q[2])

\* np.argmin: the first index holding the minimum
ArgMin(d) ==
    CHOOSE i \in 1..Len(d) :
        /\ \A j \in 1..Len(d) : d[i] <= d[j]
        /\ \A j \in 1..(i - 1) : d[j] > d[i]

-----------------------------------------------------------------------------
(* BallTracker, trackers.py *)

\* __init__: an empty deque of the given capacity, no last position
BallTrackerNew(buffer_size) ==
    [buffer |-> <<>>, last_position |-> None, maxlen |-> buffer_size]

\* a mutant: a deque built without maxlen, which never evicts
DequeAppendUnbounded(buffer, maxlen, x) == Append(buffer, x)

\* deque(maxlen).append: the oldest sample is evicted from a full deque
DequeAppend(buffer, maxlen, x) ==
    IF maxlen = 0 THEN <<>>
    ELSE IF Len(buffer) >= maxlen THEN Append(Tail(buffer), x)
    ELSE Append(buffer, x)

\* a mutant: a frame without a ball forgets the last position
UpdateNoDetectionsForgets(bt) ==
    [bt |-> [bt EXCEPT !.last_position = None], ret |-> None]

\* update, lines 29-30: no detection, nothing changes
UpdateNoDetections(bt) == [bt |-> bt, ret |-> None]

\* a mutant: reset clears the trail but keeps the last position
BallTrackerResetKeepsPosition(bt) == [bt EXCEPT !.buffer = <<>>]

\* a mutant: the first candidate is always taken
SelectPositionFirst(last_position, xy) == xy[1]

\* update, lines 34-39: the first candidate when nothing is known, else the nearest
SelectPosition(last_position, xy) ==
    IF last_position = None
    THEN xy[1]
    ELSE xy[ArgMin([i \in 1..Len(xy) |-> Dist2(xy[i], last_position)])]

\* update: the tracker after the call and the value returned
BallTrackerUpdate(bt, detections) ==
    IF Len(detections) = 0
    THEN UpdateNoDetections(bt)
    ELSE LET xy == CenterAnchors(detections)
             pos == SelectPosition(bt.last_position, xy)
         IN  [bt |-> [bt EXCEPT !.last_position = pos,
                                !.buffer = DequeAppend(bt.buffer, bt.maxlen, pos)],
              ret |-> pos]

\* reset: the deque is cleared and the last position forgotten
BallTrackerReset(bt) == [bt EXCEPT !.buffer = <<>>, !.last_position = None]

-----------------------------------------------------------------------------
(* resolve_goalkeepers_team_id, processor.py *)

\* sv.Position.BOTTOM_CENTER: ((x1 + x2) / 2, y2), in half-pixels
BottomCenter(xyxy) == <<xyxy[1] + xyxy[3], 2 * xyxy[4]>>

\* Detections.get_anchors_coordinates(sv.Position.BOTTOM_CENTER)
BottomCenterAnchors(detections) ==
    [i \in 1..Len(detections) |-> BottomCenter(detections[i].xyxy)]

RECURSIVE SumPoints(_, _)
\* the sum of the rows xy[i], i in the set idx
SumPoints(xy, idx) ==
    IF idx = {} THEN <<0, 0>>
    ELSE LET i == CHOOSE k \in idx : TRUE
             rest == SumPoints(xy, idx \ {i})
         IN  <<xy[i][1] + rest[1], xy[i][2] + rest[2]>>

\* players_xy[players.class_id == team].mean(axis=0): the sum of the rows over
\* their number n; with n = 0 numpy's mean of an empty slice is nan
TeamCentroid(players, team) ==
    LET idx == {i \in 1..Len(players) : players[i].class_id = team}
    IN  [sum |-> SumPoints(BottomCenterAnchors(players), idx), n |-> Cardinality(idx)]

\* np.linalg.norm(goalkeeper_xy - centroid), squared, as the fraction num / den;
\* nan when the centroid is nan
CentroidDist2(goalkeeper_xy, centroid) ==
    IF centroid.n = 0
    THEN [nan |-> TRUE, num |-> 0, den |-> 1]
    ELSE [nan |-> FALSE,
          num |-> Dist2(<<centroid.n * goalkeeper_xy[1], centroid.n * goalkeeper_xy[2]>>,
                        centroid.sum),
          den |-> centroid.n * centroid.n]

\* a mutant: a goalkeeper as far from one centroid as from the other joins team 0
FloatLessOrEqual(a, b) == ~a.nan /\ ~b.nan /\ a.num * b.den <= b.num * a.den

\* a < b on floats: false whenever either side is nan
FloatLess(a, b) == ~a.nan /\ ~b.nan /\ a.num * b.den < b.num * a.den

\* lines 34-36: 0 if dist_0 < dist_1 else 1
TeamOfGoalkeeper(goalkeeper_xy, team_0_centroid, team_1_centroid) ==
    IF FloatLess(CentroidDist2(goalkeeper_xy, team_0_centroid),
                 CentroidDist2(goalkeeper_xy, team_1_centroid))
    THEN 0 ELSE 1

\* the array of team ids, one per goalkeeper, in goalkeeper order
resolve_goalkeepers_team_id(players, goalkeepers) ==
    LET goalkeepers_xy == BottomCenterAnchors(goalkeepers)
        team_0_centroid == TeamCentroid(players, 0)
        team_1_centroid == TeamCentroid(players, 1)
    IN  [i \in 1..Len(goalkeepers) |->
            TeamOfGoalkeeper(goalkeepers_xy[i], team_0_centroid, team_1_centroid)]

-----------------------------------------------------------------------------
(* Detections: filtering, non-maximum suppression, padding *)

\* detections[detections.class_id == class_id]
SelectClass(detections, class_id) ==
    SelectSeq(detections, LAMBDA d : d.class_id = class_id)

\* detections[mask]: the rows whose index is in keep, in their order
SelectRows(detections, keep) ==
    LET F[i \in 0..Len(detections)] ==
            IF i = 0 THEN <<>>
            ELSE IF i \in keep THEN Append(F[i - 1], detections[i])
            ELSE F[i - 1]
    IN  F[Len(detections)]

Area(b) == (b[3] - b[1]) * (b[4] - b[2])

Max(a, b) == IF a >= b THEN a ELSE b

\* the area two boxes share
Intersection(a, b) ==
    LET w == Min(a[3], b[3]) - Max(a[1], b[1])
        h == Min(a[4], b[4]) - Max(a[2], b[2])
    IN  IF w > 0 /\ h > 0 THEN w * h ELSE 0

\* iou(a, b) > percent / 100, without dividing
IouAbove(a, b, percent) ==
    LET inter == Intersection(a, b)
    IN  100 * inter > percent * (Area(a) + Area(b) - inter)

\* the order non-maximum suppression visits the rows in: by falling confidence
\* (the flipped argsort puts the later of two equal confidences first)
NmsBefore(detections, i, j) ==
    \/ detections[i].confidence > detections[j].confidence
    \/ detections[i].confidence = detections[j].confidence /\ i > j

NmsOrder(detections) ==
    LET n == Len(detections)
        rank(i) == Cardinality({j \in 1..n : j # i /\ NmsBefore(detections, j, i)})
    IN  [r \in 1..n |-> CHOOSE i \in 1..n : rank(i) = r - 1]

RECURSIVE NmsKeep(_, _, _, _, _)
\* the rows greedy suppression keeps: a row falls to a kept row visited
\* before it that overlaps it beyond the threshold (and, unless the
\* suppression is class-agnostic, has its class)
NmsKeep(detections, order, kept, percent, class_agnostic) ==
    IF order = <<>> THEN kept
    ELSE LET i == Head(order)
             suppressed ==
                 \E k \in kept :
                     /\ IouAbove(detections[k].xyxy, detections[i].xyxy, percent)
                     /\ class_agnostic \/ detections[k].class_id = detections[i].class_id
         IN  NmsKeep(detections, Tail(order),
                     IF suppressed THEN kept ELSE kept \cup {i},
                     percent, class_agnostic)

\* Detections.with_nms(threshold, class_agnostic)
WithNms(detections, percent, class_agnostic) ==
    SelectRows(detections,
               NmsKeep(detections, NmsOrder(detections), {}, percent, class_agnostic))

\* sv.pad_boxes(xyxy, px): every box grown by px on each side
PadBoxes(detections, px) ==
    [i \in 1..Len(detections) |->
        [detections[i] EXCEPT !.xyxy = <<@[1] - px, @[2] - px, @[3] + px, @[4] + px>>]]

-----------------------------------------------------------------------------
(* process_video, processor.py: the setup *)

\* the optional argument max_frames: None, or a number of frames
NoMaxFrames == [none |-> TRUE, n |-> 0]
MaxFramesOf(n) == [none |-> FALSE, n |-> n]

\* Python's truth of max_frames: None and 0 are false
Truthy(max_frames) == ~max_frames.none /\ max_frames.n # 0

\* lines 105-118: output_info.total_frames
OutputTotalFrames(a, v) ==
    IF Truthy(a.max_frames) THEN a.max_frames.n ELSE v.total_frames - a.start_frame

\* lines 184-188 and sv.get_video_frames_generator: frames are yielded from
\* position start_frame while the decoder reads one and the position is below
\* end, which is start_frame + max_frames, cut to the stated frame count, or that
\* count when max_frames is false
FramesDelivered(a, v) ==
    LET end == IF Truthy(a.max_frames)
               THEN Min(a.start_frame + a.max_frames.n, v.total_frames)
               ELSE v.total_frames
    IN  Min(v.readable, Max(0, end - a.start_frame))

\* lines 173-181
NewStats ==
    [frames_procesados |-> 0, jugadores_equipo_0 |-> 0, jugadores_equipo_1 |-> 0,
     porteros_detectados |-> 0, arbitros_detectados |-> 0, detecciones_balon |-> 0,
     total_detecciones |-> 0]

-----------------------------------------------------------------------------
(* process_video: the stages of one iteration *)

\* line 195: progress_callback and frame_idx % 10 == 0
ProgressDue(progress_callback, idx) == progress_callback /\ idx % 10 = 0

\* a mutant: the fraction counts the frames from the start of the video
ProgressFractionOfVideo(idx, a, v) ==
    [frame_idx |-> idx, num |-> a.start_frame + idx + 1, den |-> OutputTotalFrames(a, v)]

\* line 196: (frame_idx + 1) / output_info.total_frames, kept as num / den
ProgressFraction(idx, a, v) ==
    [frame_idx |-> idx, num |-> idx + 1, den |-> OutputTotalFrames(a, v)]

\* a mutant: a frame without detections is processed like any other
SkipsFrameNever(detections) == FALSE

\* lines 202-204: a frame without detections is written as it is and skipped
SkipsFrame(detections) == Len(detections) = 0

\* line 207, sv.ByteTrack(minimum_consecutive_frames=3).update_with_detections:
\* the detections that were matched to a track, in their order.  Which ones
\* are matched is the tracker's affair; keep is the set of their indices.
UpdateWithDetections(detections, keep) == SelectRows(detections, keep)

\* lines 210-221: the candidates handed to the ball tracker and where they are
\* from.  yolo is the outcome of ball_yolo.predict, [raised, value].
BallStage(present, yolo, detections) ==
    IF present
    THEN IF yolo.raised
         THEN [source |-> "general", yolo_called |-> TRUE, yolo_raised |-> TRUE,
               detections |-> SelectClass(detections, BALL_ID)]
         ELSE [source |-> "ball_yolo", yolo_called |-> TRUE, yolo_raised |-> FALSE,
               detections |-> IF Len(yolo.value) > 0
                              THEN WithNms(yolo.value, 10, FALSE)
                              ELSE yolo.value]
    ELSE LET ball_detections == SelectClass(detections, BALL_ID)
         IN  [source |-> "general", yolo_called |-> FALSE, yolo_raised |-> FALSE,
              detections |-> IF Len(ball_detections) > 0
                             THEN PadBoxes(ball_detections, 10)
                             ELSE ball_detections]

\* a mutant: predict is called whether or not the frame has players
CallsPredictAlways(players) == TRUE

\* line 239: predict is called on a frame that has players
CallsPredict(players) == Len(players) > 0

\* line 240: one crop per player, in the players' order (a crop is known by
\* the box it is cut along)
PlayerCrops(players) == [i \in 1..Len(players) |-> players[i].xyxy]

\* (players_team_id == team).sum()
CountLabel(players_team_id, team) ==
    Cardinality({i \in 1..Len(players_team_id) : players_team_id[i] = team})

\* lines 246-252 and 259-262: players[mask] with class_id set to the team, or
\* the empty Detections when the mask selects nobody
TeamPlayers(players, players_team_id, team) ==
    LET mask == {i \in 1..Len(players_team_id) : players_team_id[i] = team}
        chosen == SelectRows(players, mask)
    IN  [i \in 1..Len(chosen) |-> [chosen[i] EXCEPT !.class_id = team]]

\* lines 255-265: the goalkeepers' teams, when there are goalkeepers and players
\* (sv.Detections.merge puts team 0's players before team 1's)
ResolveStage(players, players_team_id, goalkeepers) ==
    IF Len(goalkeepers) > 0 /\ Len(players) > 0
    THEN LET merged_players == TeamPlayers(players, players_team_id, 0)
                                   \o TeamPlayers(players, players_team_id, 1)
         IN  [called |-> TRUE, players |-> merged_players,
              ret |-> resolve_goalkeepers_team_id(merged_players, goalkeepers)]
    ELSE [called |-> FALSE, players |-> <<>>, ret |-> <<>>]

-----------------------------------------------------------------------------
(* The inputs of the ball tracker *)

SeqsUpTo(S, n) == UNION {[1..k -> S] : k \in 0..n}

\* a detection: its box, its class and its confidence in percent
Detection(xyxy, class_id, confidence) ==
    [xyxy |-> xyxy, class_id |-> class_id, confidence |-> confidence]

\* three ball detections whose centres are (1, 1), (4.5, 1) and (1, 5)
BallA == Detection(<<0, 0, 2, 2>>, BALL_ID, 90)
BallB == Detection(<<3, 0, 6, 2>>, BALL_ID, 40)
BallC == Detection(<<0, 4, 2, 6>>, BALL_ID, 60)
BallMenu == {BallA, BallB, BallC}

BallCandidates(menu) == SeqsUpTo(menu, MaxCands)

\* the tracker of a specification that does not call it on its own
BallIdle ==
    /\ bt_call = [op |-> "init", detections |-> <<>>,
                  pre |-> BallTrackerNew(BUFFER_SIZE), ret |-> None, after_gap |-> FALSE,
                  first |-> FALSE, forgotten |-> None]
    /\ run = [ok |-> TRUE, p |-> None, n |-> 0]
    /\ seen = None
    /\ candidates = {}

(* The inputs of the goalkeeper resolver *)

\* players standing at (0, 0), (10, 0) and (100, 100), each under either label
LabelledPlayerMenu ==
    { Detection(b, team, 80) :
        b \in {<<-1, -2, 1, 0>>, <<9, -2, 11, 0>>, <<99, 98, 101, 100>>},
        team \in {0, 1} }

\* goalkeepers standing at (5, 5), (95, 95) and, half way, at (50, 50)
GoalkeeperMenu ==
    { Detection(b, GOALKEEPER_ID, 70) :
        b \in {<<4, 3, 6, 5>>, <<94, 93, 96, 95>>, <<49, 48, 51, 50>>} }

ResolveIdle ==
    resolve_call = [players |-> <<>>, goalkeepers |-> <<>>, done |-> FALSE, ret |-> <<>>]

\* create_team_classifier is not running
SamplerIdle ==
    sampler = [pc |-> "idle", stride |-> 1, max_crops |-> 1, total_frames |-> 0,
               position |-> 0, stopped |-> FALSE, sampled |-> <<>>, crops |-> <<>>,
               fit_crops |-> <<>>]

(* The inputs of process_video *)

\* the outcome of a collaborator's call: it raised, or it returned value
Returned(value) == [raised |-> FALSE, value |-> value]
Raised == [raised |-> TRUE, value |-> <<>>]

\* a player standing at (0, 0), another at (100, 100), a goalkeeper at (5, 5)
\* and a referee
PlayerNear == Detection(<<-1, -2, 1, 0>>, PLAYER_ID, 80)
PlayerFar == Detection(<<99, 98, 101, 100>>, PLAYER_ID, 80)
Keeper == Detection(<<4, 3, 6, 5>>, GOALKEEPER_ID, 70)
Referee == Detection(<<40, 38, 42, 40>>, REFEREE_ID, 60)

\* a second, weaker box on the ball of BallB, sharing half of their union
BallBAgain == Detection(<<4, 0, 7, 2>>, BALL_ID, 30)

\* what the general detector may return for a frame
FrameMenu ==
    { <<>>,
      <<PlayerNear, Keeper, BallA>>,
      <<PlayerNear, PlayerFar, Keeper>>,
      <<Referee, BallB, BallC>> }

\* what the ball model may do on a frame
YoloMenu == {Raised, Returned(<<>>), Returned(<<BallB, BallBAgain>>)}

\* nothing has happened in the loop yet
NoBallStage ==
    [source |-> "none", yolo_called |-> FALSE, yolo_raised |-> FALSE, detections |-> <<>>]
NoResolveStage == [called |-> FALSE, players |-> <<>>, ret |-> <<>>]
NoFrame ==
    [idx |-> -1, outcome |-> "none", raised_by |-> "none", detections |-> <<>>,
     tracker_called |-> FALSE, tracker_input |-> <<>>, tracked |-> <<>>,
     ball |-> NoBallStage, ball_called |-> FALSE, ball_position |-> None,
     predict_called |-> FALSE, crops |-> <<>>, players_team_id |-> <<>>,
     stats_before |-> NewStats,
     goalkeepers |-> <<>>, resolve |-> NoResolveStage]

\* process_video is not running
VideoIdle ==
    /\ pc = "idle"
    /\ args = [start_frame |-> 0, max_frames |-> NoMaxFrames, progress_callback |-> FALSE]
    /\ video = [total_frames |-> 0, readable |-> 0]
    /\ player_detector = [menus |-> <<{}>>, may_raise |-> FALSE]
    /\ ball_yolo = [present |-> FALSE, outcomes |-> {}]
    /\ team_classifier = [kind |-> "free", labelled |-> 0, may_raise |-> FALSE]
    /\ frame_idx = 0
    /\ stats = NewStats
    /\ progress_calls = <<>>
    /\ tracker_calls = 0
    /\ empty_frames = 0
    /\ frame = NoFrame

-----------------------------------------------------------------------------
(* The ball tracker on its own: any sequence of update and reset calls *)

\* small capacities with every box, and the pipeline's capacity with one box
InitBall ==
    /\ \E size \in 1..MaxBuf :
           /\ ball_tracker = BallTrackerNew(size)
           /\ candidates = BallMenu
    /\ bt_call = [op |-> "init", detections |-> <<>>, pre |-> ball_tracker,
                  ret |-> None, after_gap |-> FALSE, first |-> FALSE, forgotten |-> None]
    /\ run = [ok |-> TRUE, p |-> None, n |-> 0]
    /\ seen = None

InitTrail ==
    /\ ball_tracker = BallTrackerReset(BallTrackerNew(BUFFER_SIZE))
    /\ \E d \in BallMenu : candidates = {d}
    /\ bt_call = [op |-> "reset", detections |-> <<>>, pre |-> ball_tracker,
                  ret |-> None, after_gap |-> FALSE, first |-> FALSE, forgotten |-> None]
    /\ run = [ok |-> TRUE, p |-> None, n |-> 0]
    /\ seen = None

Init == (InitBall \/ InitTrail) /\ ResolveIdle /\ SamplerIdle /\ VideoIdle

\* whether a call keeps the run "one detection at the same position" going
RunAfter(r, detections) ==
    IF r.ok /\ Len(detections) = 1
            /\ (r.p = None \/ r.p = Center(detections[1].xyxy))
    THEN [ok |-> TRUE, p |-> Center(detections[1].xyxy), n |-> r.n + 1]
    ELSE [ok |-> FALSE, p |-> None, n |-> 0]

Update ==
    /\ \E detections \in BallCandidates(candidates) :
           LET r == BallTrackerUpdate(ball_tracker, detections)
           IN  /\ RunAfter(run, detections).n <= ball_tracker.maxlen + MaxExtra
               /\ ball_tracker' = r.bt
               /\ bt_call' = [op |-> "update", detections |-> detections,
                              pre |-> ball_tracker, ret |-> r.ret,
                              after_gap |-> bt_call.op = "update"
                                            /\ Len(bt_call.detections) = 0,
                              first |-> Len(detections) > 0 /\ seen = None,
                              forgotten |-> bt_call.forgotten]
               /\ run' = RunAfter(run, detections)
               /\ seen' = IF Len(detections) = 0 THEN seen ELSE r.ret
    /\ UNCHANGED <<candidates, resolve_call, sampler, pv_vars>>

Reset ==
    /\ ball_tracker' = BallTrackerReset(ball_tracker)
    /\ bt_call' = [op |-> "reset", detections |-> <<>>, pre |-> ball_tracker,
                   ret |-> None, after_gap |-> FALSE, first |-> FALSE,
                   forgotten |-> seen]
    /\ run' = [ok |-> TRUE, p |-> None, n |-> 0]
    /\ seen' = None
    /\ UNCHANGED <<candidates, resolve_call, sampler, pv_vars>>

Next == Update \/ Reset

Spec == Init /\ [][Next]_vars

-----------------------------------------------------------------------------
(* The ball tracker's contract *)

\* C1: an update call with zero detections returns None and leaves the tracker
\* as it was: the same trail, entry for entry, and the same last position.
C1_NoDetectionKeepsState ==
    (bt_call.op = "update" /\ Len(bt_call.detections) = 0)
        => /\ bt_call.ret = None
           /\ Len(ball_tracker.buffer) = Len(bt_call.pre.buffer)
           /\ ball_tracker.buffer = bt_call.pre.buffer
           /\ ball_tracker.last_position = bt_call.pre.last_position

\* an empty call reached a tracker whose trail was full
C1_Witness ==
    /\ bt_call.op = "update"
    /\ Len(bt_call.detections) = 0
    /\ bt_call.pre.maxlen >= 2
    /\ Len(bt_call.pre.buffer) = bt_call.pre.maxlen
    /\ bt_call.pre.last_position # None

\* C2: after N calls since the reset, each with one detection at the same
\* position p, the trail holds exactly min(N, capacity) entries, all p.
C2_TrailOfStaticBall ==
    (run.ok /\ run.n >= 1)
        => /\ Len(ball_tracker.buffer) = Min(run.n, ball_tracker.maxlen)
           /\ Len(ball_tracker.buffer) <= ball_tracker.maxlen
           /\ \A i \in 1..Len(ball_tracker.buffer) : ball_tracker.buffer[i] = run.p

\* the static ball was seen for more frames than the pipeline's trail holds
C2_Witness ==
    /\ run.ok
    /\ ball_tracker.maxlen = BUFFER_SIZE
    /\ run.n > BUFFER_SIZE
    /\ Len(ball_tracker.buffer) = BUFFER_SIZE

\* C3: an update call with candidates returns and stores the first candidate's
\* centre when no position is known, else the centre of a candidate nearest to
\* the known position, which is the one of the most recent call that carried a
\* ball; that position is the one sample the call appends to the trail.
C3_NearestCandidateAdopted ==
    /\ ball_tracker.last_position = seen
    /\ (bt_call.op = "update" /\ Len(bt_call.detections) >= 1)
        => LET xy == CenterAnchors(bt_call.detections)
               pre == bt_call.pre
               buf == ball_tracker.buffer
               kept == Len(buf) - 1
           IN  /\ bt_call.ret = ball_tracker.last_position
               /\ pre.last_position = None => bt_call.ret = xy[1]
               /\ pre.last_position # None =>
                      \E i \in 1..Len(xy) :
                          /\ bt_call.ret = xy[i]
                          /\ \A j \in 1..Len(xy) :
                                 Dist2(xy[i], pre.last_position)
                                     <= Dist2(xy[j], pre.last_position)
               /\ Len(buf) = Min(Len(pre.buffer) + 1, pre.maxlen)
               /\ buf[Len(buf)] = bt_call.ret
               /\ \A k \in 1..kept :
                      buf[k] = pre.buffer[Len(pre.buffer) - kept + k]

\* after a call without a ball, the second of two candidates was the nearer one
C3_Witness ==
    /\ bt_call.op = "update"
    /\ bt_call.after_gap
    /\ Len(bt_call.detections) = 2
    /\ bt_call.pre.last_position # None
    /\ bt_call.ret = Center(bt_call.detections[2].xyxy)
    /\ bt_call.ret # Center(bt_call.detections[1].xyxy)
    /\ bt_call.detections[2].confidence < bt_call.detections[1].confidence

\* C15: after any sequence of update and reset calls on a tracker of capacity
\* buffer_size >= 1, the trail is no longer than buffer_size, it is empty
\* exactly when the last position is unknown, and its newest entry is the last
\* position; reset leaves the tracker as it was built, and the first update
\* with a ball after a reset adopts the first candidate, wherever the ball was
\* before the reset.
C15_TrailAgreesWithLastPosition ==
    /\ Len(ball_tracker.buffer) <= ball_tracker.maxlen
    /\ ball_tracker.buffer = <<>> <=> ball_tracker.last_position = None
    /\ ball_tracker.buffer # <<>>
           => ball_tracker.buffer[Len(ball_tracker.buffer)] = ball_tracker.last_position
    /\ bt_call.op = "reset" => ball_tracker = BallTrackerNew(ball_tracker.maxlen)
    /\ (bt_call.op = "update" /\ bt_call.first)
           => /\ bt_call.pre = BallTrackerNew(ball_tracker.maxlen)
              /\ bt_call.ret = Center(bt_call.detections[1].xyxy)
              /\ ball_tracker.buffer = <<bt_call.ret>>

\* after a reset that forgot a position, the first of two candidates was
\* adopted although the second was nearer to the forgotten position
C15_Witness ==
    /\ bt_call.op = "update"
    /\ bt_call.first
    /\ bt_call.forgotten # None
    /\ Len(bt_call.detections) = 2
    /\ Dist2(Center(bt_call.detections[2].xyxy), bt_call.forgotten)
           < Dist2(Center(bt_call.detections[1].xyxy), bt_call.forgotten)
    /\ ball_tracker.last_position = Center(bt_call.detections[1].xyxy)

-----------------------------------------------------------------------------
(* The goalkeeper resolver on its own: one call on any labelled players *)

InitResolve ==
    /\ ball_tracker = BallTrackerNew(BUFFER_SIZE)
    /\ BallIdle
    /\ SamplerIdle
    /\ VideoIdle
    /\ \E players \in SeqsUpTo(LabelledPlayerMenu, MaxPlayers),
          goalkeepers \in SeqsUpTo(GoalkeeperMenu, MaxKeepers) :
           resolve_call = [players |-> players, goalkeepers |-> goalkeepers,
                           done |-> FALSE, ret |-> <<>>]

Resolve ==
    /\ ~resolve_call.done
    /\ resolve_call' =
           [resolve_call EXCEPT
               !.done = TRUE,
               !.ret = resolve_goalkeepers_team_id(resolve_call.players,
                                                   resolve_call.goalkeepers)]
    /\ UNCHANGED <<ball_tracker, bt_vars, sampler, pv_vars>>

NextResolve == Resolve

SpecResolve == InitResolve /\ [][NextResolve]_vars

-----------------------------------------------------------------------------
(* The resolver's contract *)

\* whether team has a player among the labelled players
HasTeam(players, team) == \E i \in 1..Len(players) : players[i].class_id = team

\* the squared distance from a goalkeeper to the mean anchor of a team's
\* players, times the square of the number n of those players (no division)
ScaledDist2(players, team, goalkeeper) ==
    LET c == TeamCentroid(players, team)
        g == BottomCenter(goalkeeper.xyxy)
    IN  Dist2(<<c.n * g[1], c.n * g[2]>>, c.sum)

TeamSize(players, team) ==
    Cardinality({i \in 1..Len(players) : players[i].class_id = team})

\* team a's centroid is strictly nearer to the goalkeeper than team b's
StrictlyNearer(players, a, b, goalkeeper) ==
    ScaledDist2(players, a, goalkeeper) * TeamSize(players, b) * TeamSize(players, b)
        < ScaledDist2(players, b, goalkeeper) * TeamSize(players, a) * TeamSize(players, a)

\* the spec's example: centroids (0, 0) for team 0 and (100, 100) for team 1,
\* goalkeepers at (5, 5) and at (95, 95)
ExamplePlayers ==
    <<Detection(<<-1, -2, 1, 0>>, 0, 80), Detection(<<99, 98, 101, 100>>, 1, 80)>>
ExampleGoalkeepers ==
    <<Detection(<<4, 3, 6, 5>>, GOALKEEPER_ID, 70),
      Detection(<<94, 93, 96, 95>>, GOALKEEPER_ID, 70)>>

\* C4 as stated: with both teams present every goalkeeper gets one label, and
\* the label is that of the team whose centroid is strictly nearer.
C4_LabelIsStrictlyNearerTeam ==
    (/\ resolve_call.done
     /\ HasTeam(resolve_call.players, 0)
     /\ HasTeam(resolve_call.players, 1))
        => /\ Len(resolve_call.ret) = Len(resolve_call.goalkeepers)
           /\ \A i \in 1..Len(resolve_call.ret) :
                  /\ resolve_call.ret[i] \in {0, 1}
                  /\ StrictlyNearer(resolve_call.players, resolve_call.ret[i],
                                    1 - resolve_call.ret[i], resolve_call.goalkeepers[i])

\* C4 as amended: the label is 0 exactly when team 0's centroid is strictly
\* nearer, and 1 otherwise: when team 1's is nearer or the two are equidistant.
C4_LabelZeroIffTeamZeroStrictlyNearer ==
    (/\ resolve_call.done
     /\ HasTeam(resolve_call.players, 0)
     /\ HasTeam(resolve_call.players, 1))
        => /\ Len(resolve_call.ret) = Len(resolve_call.goalkeepers)
           /\ \A i \in 1..Len(resolve_call.ret) :
                  /\ resolve_call.ret[i] \in {0, 1}
                  /\ resolve_call.ret[i] = 0
                         <=> StrictlyNearer(resolve_call.players, 0, 1,
                                            resolve_call.goalkeepers[i])
           /\ (resolve_call.players = ExamplePlayers
               /\ resolve_call.goalkeepers = ExampleGoalkeepers)
                  => resolve_call.ret = <<0, 1>>

\* the spec's example was resolved
C4_Witness ==
    /\ resolve_call.done
    /\ resolve_call.players = ExamplePlayers
    /\ resolve_call.goalkeepers = ExampleGoalkeepers
    /\ resolve_call.ret = <<0, 1>>

-----------------------------------------------------------------------------
(* process_video: the loop over the frames *)

\* what the collaborators may do on the frame about to be processed
DetectorOutcomes ==
    LET menu == player_detector.menus[(frame_idx % Len(player_detector.menus)) + 1]
    IN  {Returned(d) : d \in menu}
            \cup (IF player_detector.may_raise THEN {Raised} ELSE {})

\* the tracker is only called on a frame with detections
TrackerChoices(det) ==
    IF det.raised \/ SkipsFrame(det.value) THEN {{}} ELSE SUBSET (1..Len(det.value))

\* the ball model is only called when it is there, on a frame with detections
YoloOutcomes(det) ==
    IF det.raised \/ SkipsFrame(det.value) \/ ~ball_yolo.present
    THEN {Returned(<<>>)}
    ELSE ball_yolo.outcomes

\* team_classifier.predict(crops): one label per crop; the stub labels the
\* crops it is given 0, 1, 0, 1, ...
PredictOutcomes(n) ==
    IF n = 0 THEN {Returned(<<>>)}
    ELSE IF team_classifier.kind = "alternate"
    THEN {Returned([i \in 1..n |-> (team_classifier.labelled + i - 1) % 2])}
    ELSE {Returned(labels) : labels \in [1..n -> {0, 1}]}
             \cup (IF team_classifier.may_raise THEN {Raised} ELSE {})

\* lines 191-313: one iteration, given what the collaborators did.  det is the
\* outcome of get_detections, keep the rows the tracker returns, yolo the
\* outcome of ball_yolo.predict and pred that of team_classifier.predict.
Iteration(det, keep, yolo, pred) ==
    LET counted == [stats EXCEPT !.frames_procesados = @ + 1]
        due == ProgressDue(args.progress_callback, frame_idx)
        fraction == ProgressFraction(frame_idx, args, video)
        progress_raises == due /\ fraction.den = 0
        calls == IF due /\ ~progress_raises
                 THEN Append(progress_calls, fraction) ELSE progress_calls
        base == [pc |-> "loop", stats |-> counted, ball_tracker |-> ball_tracker,
                 progress_calls |-> calls, tracker_calls |-> tracker_calls,
                 labelled |-> team_classifier.labelled,
                 frame |-> [NoFrame EXCEPT !.idx = frame_idx, !.stats_before = stats]]
        detections == det.value
        tracked == UpdateWithDetections(detections, keep)
        ball == BallStage(ball_yolo.present, yolo, tracked)
        updated == BallTrackerUpdate(ball_tracker, ball.detections)
        goalkeepers == SelectClass(tracked, GOALKEEPER_ID)
        players == SelectClass(tracked, PLAYER_ID)
        referees == SelectClass(tracked, REFEREE_ID)
        tallied ==
            [counted EXCEPT
                !.total_detecciones = @ + Len(detections),
                !.detecciones_balon = IF updated.ret # None THEN @ + 1 ELSE @,
                !.porteros_detectados = @ + Len(goalkeepers),
                !.arbitros_detectados = @ + Len(referees)]
        players_team_id == pred.value
        resolve == ResolveStage(players, players_team_id, goalkeepers)
        seen_frame ==
            [base.frame EXCEPT
                !.detections = detections, !.tracker_called = TRUE,
                !.tracker_input = detections, !.tracked = tracked,
                !.ball = ball, !.ball_called = TRUE, !.ball_position = updated.ret,
                !.goalkeepers = goalkeepers,
                !.predict_called = CallsPredict(players),
                !.crops = IF CallsPredict(players) THEN PlayerCrops(players) ELSE <<>>]
        tracked_base ==
            [base EXCEPT !.stats = tallied, !.ball_tracker = updated.bt,
                         !.tracker_calls = @ + 1]
    IN  IF progress_raises
        THEN [base EXCEPT !.pc = "raised",
                          !.frame = [@ EXCEPT !.outcome = "raised",
                                              !.raised_by = "progress"]]
        ELSE IF det.raised
        THEN [base EXCEPT !.pc = "raised",
                          !.frame = [@ EXCEPT !.outcome = "raised",
                                              !.raised_by = "player_detector"]]
        ELSE IF SkipsFrame(detections)
        THEN [base EXCEPT !.frame = [@ EXCEPT !.outcome = "skipped"]]
        ELSE IF pred.raised
        THEN [tracked_base EXCEPT
                 !.pc = "raised",
                 !.frame = [seen_frame EXCEPT !.outcome = "raised",
                                              !.raised_by = "team_classifier"]]
        ELSE [tracked_base EXCEPT
                 !.stats = [tallied EXCEPT
                     !.jugadores_equipo_0 = @ + CountLabel(players_team_id, 0),
                     !.jugadores_equipo_1 = @ + CountLabel(players_team_id, 1)],
                 !.labelled = @ + Len(players_team_id),
                 !.frame = [seen_frame EXCEPT !.outcome = "annotated",
                                              !.players_team_id = players_team_id,
                                              !.resolve = resolve]]

\* the generator yields a frame and the body of the loop runs on it
Frame ==
    /\ pc = "loop"
    /\ frame_idx < FramesDelivered(args, video)
    /\ \E det \in DetectorOutcomes :
       \E keep \in TrackerChoices(det) :
       \E yolo \in YoloOutcomes(det) :
       \E pred \in PredictOutcomes(
                       Len(SelectClass(UpdateWithDetections(det.value, keep), PLAYER_ID))) :
           \E r \in {Iteration(det, keep, yolo, pred)} :
               /\ pc' = r.pc
               /\ stats' = r.stats
               /\ ball_tracker' = r.ball_tracker
               /\ progress_calls' = r.progress_calls
               /\ tracker_calls' = r.tracker_calls
               /\ team_classifier' = [team_classifier EXCEPT !.labelled = r.labelled]
               /\ frame' = r.frame
               /\ empty_frames' = IF ~det.raised /\ Len(det.value) = 0
                                  THEN empty_frames + 1 ELSE empty_frames
    /\ frame_idx' = frame_idx + 1
    /\ UNCHANGED <<args, video, player_detector, ball_yolo, bt_vars, resolve_call, sampler>>

\* the generator is exhausted: the sink is closed and stats returned
Return ==
    /\ pc = "loop"
    /\ frame_idx >= FramesDelivered(args, video)
    /\ pc' = "returned"
    /\ UNCHANGED <<args, video, player_detector, ball_yolo, team_classifier, frame_idx,
                   stats, progress_calls, tracker_calls, empty_frames, frame,
                   ball_tracker, bt_vars, resolve_call, sampler>>

NextVideo == Frame \/ Return

\* lines 103-188: the state in which the loop is entered
Setup(a, v) ==
    /\ pc = "loop"
    /\ args = a
    /\ video = v
    /\ ball_tracker = BallTrackerReset(BallTrackerNew(BUFFER_SIZE))
    /\ frame_idx = 0
    /\ stats = NewStats
    /\ progress_calls = <<>>
    /\ tracker_calls = 0
    /\ empty_frames = 0
    /\ frame = NoFrame
    /\ BallIdle
    /\ ResolveIdle
    /\ SamplerIdle

\* short videos whose frames carry any of the menu's detections, with and
\* without a ball model, every collaborator free to fail
InitVideo ==
    /\ Setup([start_frame |-> 0, max_frames |-> NoMaxFrames, progress_callback |-> TRUE],
             [total_frames |-> MaxFrames, readable |-> MaxFrames])
    /\ player_detector = [menus |-> <<FrameMenu>>, may_raise |-> TRUE]
    /\ ball_yolo \in {[present |-> FALSE, outcomes |-> {}],
                      [present |-> TRUE, outcomes |-> YoloMenu]}
    /\ team_classifier = [kind |-> "free", labelled |-> 0, may_raise |-> TRUE]

SpecVideo == InitVideo /\ [][NextVideo]_vars

\* the spec's end-to-end clip: ten frames, each with one player, one static
\* ball and one goalkeeper at (5, 5); the stub classifier labels the players
\* 0, 1, 0, ... and the players of team 0 stand at (0, 0), those of team 1 at
\* (100, 100); the ball model, when there is one, returns the static ball
InitE2E ==
    /\ Setup([start_frame |-> 0, max_frames |-> NoMaxFrames, progress_callback |-> TRUE],
             [total_frames |-> 10, readable |-> 10])
    /\ player_detector = [menus |-> << {<<PlayerNear, BallA, Keeper>>},
                                       {<<PlayerFar, BallA, Keeper>>} >>,
                          may_raise |-> FALSE]
    /\ ball_yolo \in {[present |-> FALSE, outcomes |-> {}],
                      [present |-> TRUE, outcomes |-> {Returned(<<BallA>>)}]}
    /\ team_classifier = [kind |-> "alternate", labelled |-> 0, may_raise |-> FALSE]

SpecE2E == InitE2E /\ [][NextVideo]_vars

\* long videos without detections, for every start_frame, max_frames, stated
\* frame count and number of frames the decoder yields, with and without a
\* progress callback
InitClip ==
    /\ \E start_frame \in {0, 1, 7},
          max_frames \in {NoMaxFrames} \cup {MaxFramesOf(n) : n \in {0, 1, 11, MaxTotal}},
          progress_callback \in BOOLEAN,
          total_frames \in {0, 5, 11, MaxTotal},
          readable \in {0, 3, 11, MaxTotal + 1} :
           Setup([start_frame |-> start_frame, max_frames |-> max_frames,
                  progress_callback |-> progress_callback],
                 [total_frames |-> total_frames, readable |-> readable])
    /\ player_detector = [menus |-> <<{<<>>}>>, may_raise |-> FALSE]
    /\ ball_yolo = [present |-> FALSE, outcomes |-> {}]
    /\ team_classifier = [kind |-> "free", labelled |-> 0, may_raise |-> FALSE]

SpecClip == InitClip /\ [][NextVideo]_vars

-----------------------------------------------------------------------------
(* The contract of process_video *)

\* the teams that have a player among the labelled players
TeamsPresent(players) == {players[i].class_id : i \in 1..Len(players)}

\* C5: when the goalkeepers of a frame are resolved while exactly one team has
\* labelled players, every goalkeeper is given that team (the code has no
\* explicit failure): never the team without players.
C5_KeepersJoinTheTeamPresent ==
    (frame.resolve.called /\ Cardinality(TeamsPresent(frame.resolve.players)) = 1)
        => \A i \in 1..Len(frame.resolve.ret) :
               frame.resolve.ret[i] \in TeamsPresent(frame.resolve.players)

\* C6: while every frame consumed so far had zero detections, the object
\* tracker has not been called, every detection-derived counter is zero and
\* frames_procesados is the number of frames consumed.
C6_EmptyFramesCountNothing ==
    (pc \in {"loop", "returned"} /\ empty_frames = frame_idx)
        => /\ tracker_calls = 0
           /\ stats.total_detecciones = 0
           /\ stats.jugadores_equipo_0 = 0
           /\ stats.jugadores_equipo_1 = 0
           /\ stats.porteros_detectados = 0
           /\ stats.arbitros_detectados = 0
           /\ stats.detecciones_balon = 0
           /\ stats.frames_procesados = frame_idx

\* a whole video without detections went through a pipeline with a ball model
C6_Witness ==
    /\ pc = "returned"
    /\ ball_yolo.present
    /\ frame_idx >= 2
    /\ empty_frames = frame_idx
    /\ stats.frames_procesados = frame_idx

\* C7: the ten-frame clip ends with frames_procesados = 10, detecciones_balon
\* = 10 and the two team counts summing to 10, and in every frame the
\* goalkeeper is assigned to team 0.
C7_TenFrameClip ==
    /\ frame.resolve.called => frame.resolve.ret = <<0>>
    /\ pc = "returned"
           => /\ stats.frames_procesados = 10
              /\ stats.detecciones_balon = 10
              /\ stats.jugadores_equipo_0 + stats.jugadores_equipo_1 = 10

\* C8: the callback is called exactly on the frames 0, 10, 20, ... (and only
\* if one was passed), each time with a fraction within [0, 1] that is
\* strictly greater than the one before.
C8_ProgressCadence ==
    LET n == Len(progress_calls)
    IN  /\ n = IF args.progress_callback THEN (frame_idx + 9) \div 10 ELSE 0
        /\ \A k \in 1..n :
               /\ progress_calls[k].frame_idx = 10 * (k - 1)
               /\ progress_calls[k].den > 0
               /\ 0 <= progress_calls[k].num
               /\ progress_calls[k].num <= progress_calls[k].den
        /\ \A k \in 1..(n - 1) :
               progress_calls[k].num * progress_calls[k + 1].den
                   < progress_calls[k + 1].num * progress_calls[k].den

\* a run that started past the first frame reported three times, the last
\* time the fraction 1
C8_Witness ==
    /\ pc = "returned"
    /\ args.start_frame > 0
    /\ Len(progress_calls) = 3
    /\ progress_calls[3].num = progress_calls[3].den

\* C10: whenever the ball tracker is called, the candidates it is handed are
\* the ball detections of the general detector's output for the frame if the
\* ball model is absent or failed, and the ball model's output only if it is
\* there and succeeded; a failure of the ball model does not end the run.
C10_FallbackToGeneralBallDetections ==
    /\ (frame.ball_called /\ (~ball_yolo.present \/ frame.ball.yolo_raised))
           => CenterAnchors(frame.ball.detections)
                  = CenterAnchors(SelectClass(frame.detections, BALL_ID))
    /\ frame.ball.source = "ball_yolo" => ball_yolo.present /\ ~frame.ball.yolo_raised
    /\ frame.ball.yolo_raised => frame.ball_called /\ frame.raised_by # "ball_yolo"

\* C11: a collaborator that fails on a frame (the general detector, the team
\* classifier's predict) does not end the run: the loop goes on with the later
\* frames and the statistics are returned.
C11_CollaboratorFailureIsIsolated ==
    frame.raised_by \in {"player_detector", "team_classifier"} => pc # "raised"

\* C12: the object tracker is given no detection of class ball, and the ball
\* candidates taken from the general detector are the frame's ball detections,
\* none of them dropped or moved by the object tracker.
C12_BallBypassesObjectTracker ==
    /\ frame.tracker_called => Len(SelectClass(frame.tracker_input, BALL_ID)) = 0
    /\ (frame.ball_called /\ frame.ball.source = "general")
           => CenterAnchors(frame.ball.detections)
                  = CenterAnchors(SelectClass(frame.detections, BALL_ID))

\* C13: the object tracker is stepped on every frame the detector answered
\* for, the frames without any detection included, so that its tracks age.
C13_TrackerSteppedOnEmptyFrames ==
    /\ frame.outcome = "skipped" => frame.tracker_called
    /\ pc \in {"loop", "returned"} => tracker_calls = frame_idx

\* C14: predict is called only on a frame with at least one (tracked) player,
\* with one crop per player in the players' order, and the two team counters
\* grow by that call's labels and by nothing else; the goalkeepers are
\* resolved only when there is at least one labelled player and one goalkeeper.
C14_PredictAndResolveAreGuarded ==
    LET players == SelectClass(frame.tracked, PLAYER_ID)
    IN  /\ frame.predict_called
               => /\ Len(frame.crops) >= 1
                  /\ Len(frame.crops) = Len(players)
                  /\ \A i \in 1..Len(players) : frame.crops[i] = players[i].xyxy
        /\ (~frame.predict_called /\ frame.tracker_called) => Len(players) = 0
        /\ frame.outcome = "annotated"
               => Len(frame.players_team_id) = Len(frame.crops)
        /\ stats.jugadores_equipo_0
               = frame.stats_before.jugadores_equipo_0
                     + CountLabel(frame.players_team_id, 0)
        /\ stats.jugadores_equipo_1
               = frame.stats_before.jugadores_equipo_1
                     + CountLabel(frame.players_team_id, 1)
        /\ frame.resolve.called
               => /\ Len(frame.resolve.players) >= 1
                  /\ Len(frame.goalkeepers) >= 1
                  /\ Len(frame.resolve.ret) = Len(frame.goalkeepers)

\* a frame with two players and a goalkeeper, of which the tracker passed on
\* all: predict got two crops and the goalkeeper was resolved; in an earlier
\* frame nothing was counted
C14_Witness ==
    /\ frame.idx >= 1
    /\ frame.predict_called
    /\ Len(frame.crops) = 2
    /\ frame.players_team_id = <<1, 0>>
    /\ frame.resolve.called
    /\ stats.jugadores_equipo_0 = frame.stats_before.jugadores_equipo_0 + 1

-----------------------------------------------------------------------------
(* create_team_classifier, processor.py *)

\* boxes that overlap a player's by two thirds of their union: a weaker second
\* box of the player at (0, 0), and a stronger goalkeeper box on the player at
\* (100, 100)
PlayerNearAgain == Detection(<<-1, -2, 1, 1>>, PLAYER_ID, 50)
KeeperOnPlayerFar == Detection(<<99, 98, 101, 101>>, GOALKEEPER_ID, 90)
PlayerMid == Detection(<<49, 48, 51, 50>>, PLAYER_ID, 75)

\* what the detector may return for a sampled frame
SampleMenu ==
    { <<>>,
      <<PlayerNear, PlayerFar, Keeper>>,
      <<PlayerNear, PlayerNearAgain, Referee>>,
      <<KeeperOnPlayerFar, PlayerFar, BallA>>,
      <<PlayerNear, PlayerMid, PlayerFar>> }

\* lines 58-61: the crops one sampled frame adds, one per player that is left
\* after the class-agnostic suppression at 0.5
FrameCrops(position, detections) ==
    LET players == SelectClass(WithNms(detections, 50, TRUE), PLAYER_ID)
    IN  [i \in 1..Len(players) |-> [frame |-> position, xyxy |-> players[i].xyxy]]

\* lines 63-64: no frame is sampled once the crops have reached max_crops (the
\* crops themselves are not cut)
CapReached(crops, max_crops) == Len(crops) >= max_crops

InitSampler ==
    /\ ball_tracker = BallTrackerNew(BUFFER_SIZE)
    /\ BallIdle
    /\ ResolveIdle
    /\ VideoIdle
    /\ \E stride \in 1..MaxStride, max_crops \in 1..MaxCrops,
          total_frames \in 0..MaxSampleFrames :
           sampler = [pc |-> "sampling", stride |-> stride, max_crops |-> max_crops,
                      total_frames |-> total_frames, position |-> 0, stopped |-> FALSE,
                      sampled |-> <<>>, crops |-> <<>>, fit_crops |-> <<>>]

\* lines 57-64: the generator, which yields every stride-th frame, yields one
Sample ==
    /\ sampler.pc = "sampling"
    /\ ~sampler.stopped
    /\ sampler.position < sampler.total_frames
    /\ \E detections \in SampleMenu :
           LET crops == sampler.crops \o FrameCrops(sampler.position, detections)
           IN  sampler' =
                   [sampler EXCEPT
                       !.position = @ + sampler.stride,
                       !.sampled = Append(@, [position |-> sampler.position,
                                              detections |-> detections,
                                              crops_before |-> Len(sampler.crops)]),
                       !.crops = crops,
                       !.stopped = CapReached(crops, sampler.max_crops)]
    /\ UNCHANGED <<ball_tracker, bt_vars, resolve_call, pv_vars>>

\* lines 66-70: the loop is over and the classifier is fitted on the crops
Fit ==
    /\ sampler.pc = "sampling"
    /\ sampler.stopped \/ sampler.position >= sampler.total_frames
    /\ sampler' = [sampler EXCEPT !.pc = "fitted", !.fit_crops = sampler.crops]
    /\ UNCHANGED <<ball_tracker, bt_vars, resolve_call, pv_vars>>

NextSampler == Sample \/ Fit

SpecSampler == InitSampler /\ [][NextSampler]_vars

\* the boxes of the players of a frame that no stronger box of the frame, of
\* whatever class, overlaps by more than half
UnsuppressedPlayers(detections) ==
    {detections[i].xyxy : i \in
        {i \in 1..Len(detections) :
            /\ detections[i].class_id = PLAYER_ID
            /\ \A j \in 1..Len(detections) :
                   (j # i /\ detections[j].confidence > detections[i].confidence)
                       => ~IouAbove(detections[j].xyxy, detections[i].xyxy, 50)}}

\* the frames sampled are 0, stride, 2 * stride, ...; every crop is the box of
\* a player of a sampled frame that the suppression left; and no frame is
\* sampled once the crops have reached max_crops
SamplingAndStopping ==
    /\ \A k \in 1..Len(sampler.sampled) :
           /\ sampler.sampled[k].position = (k - 1) * sampler.stride
           /\ sampler.sampled[k].crops_before < sampler.max_crops
    /\ \A c \in 1..Len(sampler.crops) :
           \E k \in 1..Len(sampler.sampled) :
               /\ sampler.sampled[k].position = sampler.crops[c].frame
               /\ sampler.crops[c].xyxy
                      \in UnsuppressedPlayers(sampler.sampled[k].detections)

\* C9: create_team_classifier samples one frame out of every stride, takes its
\* crops only from the players that are left after the class-agnostic
\* suppression at 0.5, samples no further frame once the crops have reached
\* max_crops, and hands fit at most max_crops crops.
C9_CropsCappedAtMaxCrops ==
    /\ SamplingAndStopping
    /\ sampler.pc = "fitted" => Len(sampler.fit_crops) <= sampler.max_crops

====
